---- MODULE Spec2Model ----
(***************************************************************************)
(* A model of record_audio.py (shared-accent recording sessions).          *)
(*                                                                         *)
(* Python strings are modelled as sequences of one-character strings, so   *)
(* that str.strip, str.lower, str.isdigit, int(), the filename format and  *)
(* the regular expression of the directory scan are computed, not assumed. *)
(***************************************************************************)
EXTENDS Integers, Sequences, FiniteSets, TLC

VARIABLES
    \* ---- the recording sessions (main) ----
    csv,                          \* rows of the sentences file (header row already checked)
    tree,                         \* the directory recordings/<accent>/
    tree0,                        \* the directory as it was before any session of the model ran
    pc,                           \* per speaker: position of main()
    sentences,                    \* per speaker: dict id -> text, as the sequence of its items
    sentence_ids,                 \* per speaker: the sorted keys
    idx,                          \* per speaker: position of the for loop (0-based)
    already_recorded_accent_ids,  \* per speaker: the in-memory completed set
    session_recorded_count,
    session_skipped_count,
    audio_queue,                  \* per speaker: the process-wide queue.Queue()
    current_stream,               \* per speaker: TRUE while an input stream is open
    visitLog,                     \* per speaker: what the loop printed for each sentence it reached
    startScan,                    \* per speaker: result of the scan of line 256
    savedAtStart,                 \* per speaker: the saves that had succeeded when line 256 ran
    endCause,                     \* per speaker: how the loop ended ("none" while it has not)
    summary,                      \* per speaker: the printed summaries of this run
    exitStatus,                   \* per speaker: process exit status ("running" before exit)
    runs,                         \* number of sessions started so far
    savedLog,                     \* every successful sf.write so far: <<speaker, id>>
    nextBlock,                    \* per speaker: number of audio blocks the callback produced
    \* ---- load_sentences_from_csv, row by row ----
    rows, rowIdx, loaded, warnings, loadStatus,
    \* ---- sorted(sentences.keys(), key=...) ----
    keysIn, sortOut,
    \* ---- get_recorded_sentence_ids_for_accent on an arbitrary directory ----
    scanTree, scanResult

sessVars == <<csv, tree, tree0, pc, sentences, sentence_ids, idx,
              already_recorded_accent_ids, session_recorded_count,
              session_skipped_count, audio_queue, current_stream, visitLog,
              startScan, savedAtStart, endCause, summary, exitStatus, runs,
              savedLog, nextBlock>>
loadVars == <<rows, rowIdx, loaded, warnings, loadStatus>>
sortVars == <<keysIn, sortOut>>
scanVars == <<scanTree, scanResult>>
vars == <<sessVars, loadVars, sortVars, scanVars>>

(***************************************************************************)
(* Bounds of the model.                                                    *)
(***************************************************************************)
MaxBlocks == 1      \* audio blocks the callback delivers during one capture
MaxRuns == 2        \* sessions started in one behaviour
MaxRows == 3        \* rows of a CSV file in the loader's specification
MaxKeys == 3        \* keys of a catalog in the ordering specification
MaxFiles == 3       \* directory entries of a tree in the scan's specification

(***************************************************************************)
(* Strings.                                                                *)
(***************************************************************************)
Digits == {"0", "1", "2", "3", "4", "5", "6", "7", "8", "9"}

\* int() of one decimal digit
DigitVal(c) ==
    CASE c = "0" -> 0 [] c = "1" -> 1 [] c = "2" -> 2 [] c = "3" -> 3
      [] c = "4" -> 4 [] c = "5" -> 5 [] c = "6" -> 6 [] c = "7" -> 7
      [] c = "8" -> 8 [] c = "9" -> 9

\* ord() of the characters the model uses
Ord(c) ==
    CASE c = " " -> 32 [] c = "." -> 46
      [] c \in Digits -> 48 + DigitVal(c)
      [] c = "A" -> 65 [] c = "B" -> 66 [] c = "V" -> 86 [] c = "W" -> 87
      [] c = "X" -> 88
      [] c = "_" -> 95
      [] c = "a" -> 97 [] c = "b" -> 98 [] c = "c" -> 99 [] c = "k" -> 107
      [] c = "t" -> 116 [] c = "v" -> 118 [] c = "w" -> 119 [] c = "x" -> 120

\* str.lower() of one character
LowerChar(c) ==
    CASE c = "A" -> "a" [] c = "B" -> "b" [] c = "V" -> "v" [] c = "W" -> "w"
      [] c = "X" -> "x" [] c = "S" -> "s" [] c = "P" -> "p" [] c = "K" -> "k"
      [] OTHER -> c

\* str.lower()
lower(s) == [i \in 1..Len(s) |-> LowerChar(s[i])]

\* str.endswith(suffix)
endswith(s, suffix) ==
    /\ Len(s) >= Len(suffix)
    /\ SubSeq(s, Len(s) - Len(suffix) + 1, Len(s)) = suffix

\* str.isdigit(): non-empty and every character a digit
isdigit(s) == Len(s) > 0 /\ \A i \in 1..Len(s) : s[i] \in Digits

\* int(s) for a digit string
RECURSIVE int(_)
int(s) ==
    IF Len(s) = 0 THEN 0
    ELSE 10 * int(SubSeq(s, 1, Len(s) - 1)) + DigitVal(s[Len(s)])

\* str.strip(): drop leading and trailing whitespace
RECURSIVE lstrip(_)
lstrip(s) == IF Len(s) > 0 /\ s[1] = " " THEN lstrip(Tail(s)) ELSE s
RECURSIVE rstrip(_)
rstrip(s) ==
    IF Len(s) > 0 /\ s[Len(s)] = " " THEN rstrip(SubSeq(s, 1, Len(s) - 1)) ELSE s
strip(s) == rstrip(lstrip(s))

\* Python's s < t on strings: lexicographic by code point
RECURSIVE StrLess(_, _)
StrLess(s, t) ==
    IF Len(t) = 0 THEN FALSE
    ELSE IF Len(s) = 0 THEN TRUE
    ELSE IF s[1] = t[1] THEN StrLess(Tail(s), Tail(t))
    ELSE Ord(s[1]) < Ord(t[1])

DotWav == <<".", "w", "a", "v">>

(***************************************************************************)
(* get_recorded_sentence_ids_for_accent.                                   *)
(*                                                                         *)
(* A directory recordings/<accent>/ is a record                            *)
(*   exists     : whether it is a directory (os.path.isdir)                *)
(*   dirs       : names of its entries that are directories                *)
(*   loose      : names of its entries that are not directories            *)
(*   unreadable : the directories whose os.listdir raises OSError          *)
(*   files      : function <<dir, name>> -> content, the entries of dirs   *)
(***************************************************************************)

\* re.search(r'_(\d+)\.wav$', filename, re.IGNORECASE): the set holding
\* group(1) when the pattern matches, the empty set when it does not.
\* A match starts at an underscore at position i, takes the digits up to
\* the last four characters, and those spell ".wav" in any letter case.
RegexIds(filename) ==
    LET n == Len(filename)
    IN  { SubSeq(filename, i + 1, n - 4) :
            i \in { j \in 1..n :
                      /\ filename[j] = "_"
                      /\ n - 4 >= j + 1
                      /\ \A k \in (j + 1)..(n - 4) : filename[k] \in Digits
                      /\ lower(SubSeq(filename, n - 3, n)) = DotWav } }

\* lines 175-181: the ids one filename adds to recorded_ids
FileIds(filename) ==
    IF endswith(lower(filename), DotWav) THEN RegexIds(filename) ELSE {}

\* lines 173-184: the ids one speaker directory adds (none when listdir raises)
DirIds(t, d) ==
    IF d \in t.unreadable THEN {}
    ELSE UNION { FileIds(p[2]) : p \in { q \in DOMAIN t.files : q[1] = d } }

\* a scan that only looks at one speaker directory (a per-speaker scan)
ScanOnlyFirstDir(t) ==
    IF ~t.exists \/ t.dirs = {} THEN {}
    ELSE DirIds(t, CHOOSE d \in t.dirs : \A e \in t.dirs : d = e \/ StrLess(d, e))

get_recorded_sentence_ids_for_accent(t) ==
    IF ~t.exists THEN {}
    ELSE UNION { DirIds(t, d) : d \in t.dirs }

(***************************************************************************)
(* load_sentences_from_csv.                                                *)
(*                                                                         *)
(* A row of csv.DictReader is a record [sentence_id, transcription]; a     *)
(* field a short row does not have is None.  The dict is the sequence of   *)
(* its items <<id, text>> in insertion order.                              *)
(***************************************************************************)
None == <<"None">>

DictKeys(d) == [i \in 1..Len(d) |-> d[i][1]]
DictKeySet(d) == { d[i][1] : i \in 1..Len(d) }
DictGet(d, k) == d[CHOOSE i \in 1..Len(d) : d[i][1] = k][2]

\* the loader keeps the last occurrence of an identifier instead of the first
LoadRowKeepLast(st, row, i) ==
    IF row.sentence_id = None \/ row.transcription = None
    THEN [st EXCEPT !.status = "error"]
    ELSE LET sentence_id == strip(row.sentence_id)
             text == strip(row.transcription)
         IN  IF sentence_id # <<>> /\ text # <<>>
             THEN IF sentence_id \in DictKeySet(st.sentences)
                  THEN [st EXCEPT
                          !.sentences = [j \in 1..Len(@) |->
                              IF @[j][1] = sentence_id THEN <<sentence_id, text>> ELSE @[j]],
                          !.warnings = Append(@, <<"duplicate", i + 2>>)]
                  ELSE [st EXCEPT !.sentences = Append(@, <<sentence_id, text>>)]
             ELSE IF sentence_id = <<>> /\ text = <<>>
             THEN st
             ELSE [st EXCEPT !.warnings = Append(@, <<"missing", i + 2>>)]

\* lines 91-109: the body of the loop for row number i (0-based).
\* st = [sentences, warnings, status]; None.strip() raises AttributeError,
\* which line 115 catches: the load ends with status "error".
LoadRow(st, row, i) ==
    IF row.sentence_id = None \/ row.transcription = None
    THEN [st EXCEPT !.status = "error"]
    ELSE LET sentence_id == strip(row.sentence_id)
             text == strip(row.transcription)
         IN  IF sentence_id # <<>> /\ text # <<>>
             THEN IF sentence_id \in DictKeySet(st.sentences)
                  THEN [st EXCEPT !.warnings = Append(@, <<"duplicate", i + 2>>)]
                  ELSE [st EXCEPT !.sentences = Append(@, <<sentence_id, text>>)]
             ELSE IF sentence_id = <<>> /\ text = <<>>
             THEN st
             ELSE [st EXCEPT !.warnings = Append(@, <<"missing", i + 2>>)]

\* lines 111-125: what follows the loop
LoadEnd(st) ==
    IF st.status = "error" THEN st
    ELSE IF st.sentences = <<>> THEN [st EXCEPT !.status = "empty"]
    ELSE [st EXCEPT !.status = "ok"]

LoadStart == [sentences |-> <<>>, warnings |-> <<>>, status |-> "reading"]

RECURSIVE LoadFrom(_, _, _)
LoadFrom(st, rws, i) ==
    IF st.status = "error" \/ i >= Len(rws) THEN LoadEnd(st)
    ELSE LoadFrom(LoadRow(st, rws[i + 1], i), rws, i + 1)

\* lines 68-125: status "ok" returns .sentences, any other status is sys.exit(1)
load_sentences_from_csv(rws) == LoadFrom(LoadStart, rws, 0)

(***************************************************************************)
(* sorted(sentences.keys(), key=lambda x: int(x) if x.isdigit() else x)    *)
(***************************************************************************)
\* x < y on the keys of two identifiers of the same kind
KeyLess(x, y) ==
    IF isdigit(x) THEN int(x) < int(y) ELSE StrLess(x, y)

\* Python 3 cannot order an int key and a str key: '<' raises TypeError
Comparable(x, y) == isdigit(x) = isdigit(y)

\* a stable sort puts x after every element whose key is not greater
RECURSIVE InsertSorted(_, _)
InsertSorted(out, x) ==
    IF out = <<>> THEN <<x>>
    ELSE IF KeyLess(x, out[1]) THEN <<x>> \o out
    ELSE <<out[1]>> \o InsertSorted(Tail(out), x)

RECURSIVE StableSort(_)
StableSort(keys) ==
    IF keys = <<>> THEN <<>>
    ELSE InsertSorted(StableSort(SubSeq(keys, 1, Len(keys) - 1)), keys[Len(keys)])

\* a sort that compares every identifier as a string
SortedAsStrings(keys) ==
    LET RECURSIVE Ins(_, _)
        Ins(out, x) ==
            IF out = <<>> THEN <<x>>
            ELSE IF StrLess(x, out[1]) THEN <<x>> \o out
            ELSE <<out[1]>> \o Ins(Tail(out), x)
        RECURSIVE Srt(_)
        Srt(ks) ==
            IF ks = <<>> THEN <<>>
            ELSE Ins(Srt(SubSeq(ks, 1, Len(ks) - 1)), ks[Len(ks)])
    IN  [error |-> FALSE, value |-> Srt(keys)]

\* line 249: the sorted list, or the TypeError of a mixed comparison
sorted_keys(keys) ==
    IF \E i, j \in 1..Len(keys) : ~Comparable(keys[i], keys[j])
    THEN [error |-> TRUE, value |-> <<>>]
    ELSE [error |-> FALSE, value |-> StableSort(keys)]

(***************************************************************************)
(* main: one recording session per speaker, all for the same accent and    *)
(* the same sentences file, each session its own process.                  *)
(***************************************************************************)
Speakers == { <<"A">>, <<"B">> }

Row(i, t) == [sentence_id |-> i, transcription |-> t]

\* the sentences files of the sessions
DigitCsv == << Row(<<"1", "0">>, <<"c">>), Row(<<"2">>, <<"b">>) >>
WordCsv == << Row(<<"b">>, <<"b">>), Row(<<"a", "_", "2">>, <<"a">>) >>
MixedCsv == << Row(<<"1">>, <<"a">>), Row(<<"a">>, <<"b">>) >>
ShortRowCsv == << Row(<<"1">>, None) >>

NoTree == [exists |-> FALSE, dirs |-> {}, loose |-> {}, unreadable |-> {}, files |-> <<>>]

PriorFile == [by |-> <<"X">>, id |-> <<>>, audio |-> <<>>]

\* a directory left by earlier work: a stray file whose number no catalog has
StrayTree ==
    [exists |-> TRUE, dirs |-> { <<"X">> }, loose |-> {}, unreadable |-> {},
     files |-> [p \in { << <<"X">>, <<"X", "_", "9", ".", "w", "a", "v">> >> } |-> PriorFile]]

\* the sentences file and the directory a behaviour starts from
StartPool ==
    { <<DigitCsv, NoTree>>, <<DigitCsv, StrayTree>>, <<WordCsv, NoTree>>,
      <<MixedCsv, NoTree>>, <<ShortRowCsv, NoTree>> }

\* a filename without the underscore before the identifier
output_filename_no_separator(speaker_id, sentence_id) ==
    speaker_id \o sentence_id \o DotWav

\* line 284: f"{args.speaker_id}_{sentence_id}.wav"
output_filename(speaker_id, sentence_id) ==
    speaker_id \o <<"_">> \o sentence_id \o DotWav

\* line 240: os.makedirs(speaker_recording_dir, exist_ok=True)
makedirs(t, speaker_id) ==
    [t EXCEPT !.exists = TRUE, !.dirs = @ \cup {speaker_id}]

\* line 352: sf.write(output_filepath, ...) creates or replaces the file
write_file(t, speaker_id, name, content) ==
    [t EXCEPT !.files =
        [p \in DOMAIN @ \cup { <<speaker_id, name>> } |->
            IF p = <<speaker_id, name>> THEN content ELSE @[p]]]

\* a skip test that is true of every sentence but the completed ones
ShouldSkipInverted(s, sentence_id) ==
    sentence_id \notin already_recorded_accent_ids[s]

\* a skip test that scans the accent directory again at every sentence
ShouldSkipLiveScan(s, sentence_id) ==
    sentence_id \in already_recorded_accent_ids[s]
                        \cup get_recorded_sentence_ids_for_accent(tree)

\* line 289: if sentence_id in already_recorded_accent_ids
ShouldSkip(s, sentence_id) ==
    sentence_id \in already_recorded_accent_ids[s]

SetLast(log, outcome) == [log EXCEPT ![Len(log)] = <<@[1], outcome>>]

\* the sentence the loop is at
CurrentId(s) == sentence_ids[s][idx[s] + 1]

\* a summary that counts the in-memory set instead of scanning again
FinalIdsFromMemory(s) == already_recorded_accent_ids[s]

\* line 401: final_recorded_ids = get_recorded_sentence_ids_for_accent(...)
FinalIds(s) == get_recorded_sentence_ids_for_accent(tree)

\* lines 402-403: remaining_for_accent = total_sentences - len(final_recorded_ids)
Remaining(total, final) == total - Cardinality(final)

\* a test that takes every capture to hold audio
NeverEmpty(recording_chunks) == FALSE

\* line 340: if not recording_chunks
IsEmptyCapture(recording_chunks) == recording_chunks = <<>>

\* lines 305-309: get_nowait() until the queue is empty, the blocks dropped
ClearQueue(queue) == <<>>

\* a drain that reads the blocks and leaves them in the queue
DrainKeepsBlocks(queue) ==
    [recording_chunks |-> queue, audio_queue |-> queue]

\* lines 333-338: get_nowait() until the queue is empty, the blocks kept
\* in recording_chunks in the order they were taken
DrainQueue(queue) ==
    [recording_chunks |-> queue, audio_queue |-> <<>>]

\* a save error after which the loop goes on
SaveErrorContinues == "loop"

\* line 366: break leaves the loop, the finally block is next
SaveErrorNext == "finally"

\* what no step of a running session touches
UnchangedElsewhere ==
    UNCHANGED <<csv, tree0, runs, loadVars, sortVars, scanVars>>

\* lines 233-250: create the speaker directory, load and sort the catalog.
\* A failed load is sys.exit(1); a TypeError of sorted() is not caught.
StartSession(s) ==
    /\ pc[s] \in {"idle", "done"}
    /\ runs < MaxRuns
    /\ runs' = runs + 1
    /\ tree' = makedirs(tree, s)
    /\ LET ld == load_sentences_from_csv(csv)
           srt == sorted_keys(DictKeys(ld.sentences))
       IN  /\ pc' = [pc EXCEPT ![s] =
                        IF ld.status # "ok" THEN "exited"
                        ELSE IF srt.error THEN "crashed" ELSE "scan"]
           /\ exitStatus' = [exitStatus EXCEPT ![s] =
                        IF ld.status # "ok" \/ srt.error THEN 1 ELSE "running"]
           /\ sentences' = [sentences EXCEPT ![s] =
                        IF ld.status = "ok" THEN ld.sentences ELSE <<>>]
           /\ sentence_ids' = [sentence_ids EXCEPT ![s] =
                        IF ld.status = "ok" /\ ~srt.error THEN srt.value ELSE <<>>]
    /\ idx' = [idx EXCEPT ![s] = 0]
    /\ already_recorded_accent_ids' = [already_recorded_accent_ids EXCEPT ![s] = {}]
    /\ session_recorded_count' = [session_recorded_count EXCEPT ![s] = 0]
    /\ session_skipped_count' = [session_skipped_count EXCEPT ![s] = 0]
    /\ audio_queue' = [audio_queue EXCEPT ![s] = <<>>]
    /\ current_stream' = [current_stream EXCEPT ![s] = FALSE]
    /\ visitLog' = [visitLog EXCEPT ![s] = <<>>]
    /\ startScan' = [startScan EXCEPT ![s] = {}]
    /\ savedAtStart' = [savedAtStart EXCEPT ![s] = {}]
    /\ endCause' = [endCause EXCEPT ![s] = "none"]
    /\ summary' = [summary EXCEPT ![s] = <<>>]
    /\ nextBlock' = [nextBlock EXCEPT ![s] = 0]
    /\ UNCHANGED <<csv, tree0, savedLog, loadVars, sortVars, scanVars>>

\* line 256: the scan at session start
ScanAtStart(s) ==
    /\ pc[s] = "scan"
    /\ already_recorded_accent_ids' = [already_recorded_accent_ids EXCEPT ![s] =
            get_recorded_sentence_ids_for_accent(tree)]
    /\ startScan' = [startScan EXCEPT ![s] = get_recorded_sentence_ids_for_accent(tree)]
    /\ savedAtStart' = [savedAtStart EXCEPT ![s] = savedLog]
    /\ pc' = [pc EXCEPT ![s] = "loop"]
    /\ UNCHANGED <<tree, sentences, sentence_ids, idx, session_recorded_count,
                   session_skipped_count, audio_queue, current_stream, visitLog,
                   endCause, summary, exitStatus, savedLog, nextBlock>>
    /\ UnchangedElsewhere

\* line 280, the worklist is exhausted: the loop ends normally
LoopEnd(s) ==
    /\ pc[s] = "loop"
    /\ idx[s] = Len(sentence_ids[s])
    /\ endCause' = [endCause EXCEPT ![s] = "end"]
    /\ pc' = [pc EXCEPT ![s] = "finally"]
    /\ UNCHANGED <<tree, sentences, sentence_ids, idx, already_recorded_accent_ids,
                   session_recorded_count, session_skipped_count, audio_queue,
                   current_stream, visitLog, startScan, savedAtStart, summary,
                   exitStatus, savedLog, nextBlock>>
    /\ UnchangedElsewhere

\* lines 280-292: the next sentence is completed already, skip it
SkipSentence(s) ==
    /\ pc[s] = "loop"
    /\ idx[s] < Len(sentence_ids[s])
    /\ ShouldSkip(s, CurrentId(s))
    /\ session_skipped_count' = [session_skipped_count EXCEPT ![s] = @ + 1]
    /\ visitLog' = [visitLog EXCEPT ![s] = Append(@, <<CurrentId(s), "skipped">>)]
    /\ idx' = [idx EXCEPT ![s] = @ + 1]
    /\ UNCHANGED <<tree, pc, sentences, sentence_ids, already_recorded_accent_ids,
                   session_recorded_count, audio_queue, current_stream, startScan,
                   savedAtStart, endCause, summary, exitStatus, savedLog, nextBlock>>
    /\ UnchangedElsewhere

\* lines 280-298: the next sentence is not completed, show it and wait
PromptSentence(s) ==
    /\ pc[s] = "loop"
    /\ idx[s] < Len(sentence_ids[s])
    /\ ~ShouldSkip(s, CurrentId(s))
    /\ visitLog' = [visitLog EXCEPT ![s] = Append(@, <<CurrentId(s), "prompted">>)]
    /\ pc' = [pc EXCEPT ![s] = "prompt"]
    /\ UNCHANGED <<tree, sentences, sentence_ids, idx, already_recorded_accent_ids,
                   session_recorded_count, session_skipped_count, audio_queue,
                   current_stream, startScan, savedAtStart, endCause, summary,
                   exitStatus, savedLog, nextBlock>>
    /\ UnchangedElsewhere

\* lines 299-301: the operator types q
OperatorQuit(s) ==
    /\ pc[s] = "prompt"
    /\ visitLog' = [visitLog EXCEPT ![s] = SetLast(@, "quit")]
    /\ endCause' = [endCause EXCEPT ![s] = "quit"]
    /\ pc' = [pc EXCEPT ![s] = "finally"]
    /\ UNCHANGED <<tree, sentences, sentence_ids, idx, already_recorded_accent_ids,
                   session_recorded_count, session_skipped_count, audio_queue,
                   current_stream, startScan, savedAtStart, summary, exitStatus,
                   savedLog, nextBlock>>
    /\ UnchangedElsewhere

\* lines 303-324: the operator presses ENTER; the queue is cleared and the
\* input stream started
OperatorStart(s) ==
    /\ pc[s] = "prompt"
    /\ audio_queue' = [audio_queue EXCEPT ![s] = ClearQueue(@)]
    /\ current_stream' = [current_stream EXCEPT ![s] = TRUE]
    /\ nextBlock' = [nextBlock EXCEPT ![s] = 0]
    /\ visitLog' = [visitLog EXCEPT ![s] = SetLast(@, "recording")]
    /\ pc' = [pc EXCEPT ![s] = "recording"]
    /\ UNCHANGED <<tree, sentences, sentence_ids, idx, already_recorded_accent_ids,
                   session_recorded_count, session_skipped_count, startScan,
                   savedAtStart, endCause, summary, exitStatus, savedLog>>
    /\ UnchangedElsewhere

\* lines 305-319 and 369-377: sd.InputStream(...) or start() raises
\* PortAudioError; the handler ends in sys.exit(1), after the finally block
StreamError(s) ==
    /\ pc[s] = "prompt"
    /\ audio_queue' = [audio_queue EXCEPT ![s] = ClearQueue(@)]
    /\ current_stream' = [current_stream EXCEPT ![s] = FALSE]
    /\ visitLog' = [visitLog EXCEPT ![s] = SetLast(@, "audio_error")]
    /\ endCause' = [endCause EXCEPT ![s] = "audio_error"]
    /\ pc' = [pc EXCEPT ![s] = "finally"]
    /\ UNCHANGED <<tree, sentences, sentence_ids, idx, already_recorded_accent_ids,
                   session_recorded_count, session_skipped_count, startScan,
                   savedAtStart, summary, exitStatus, savedLog, nextBlock>>
    /\ UnchangedElsewhere

\* lines 56-65: the audio thread delivers one block while the stream runs
audio_callback(s) ==
    /\ current_stream[s]
    /\ nextBlock[s] < MaxBlocks
    /\ nextBlock' = [nextBlock EXCEPT ![s] = @ + 1]
    /\ audio_queue' = [audio_queue EXCEPT ![s] =
            Append(@, <<CurrentId(s), nextBlock[s] + 1>>)]
    /\ UNCHANGED <<tree, pc, sentences, sentence_ids, idx, already_recorded_accent_ids,
                   session_recorded_count, session_skipped_count, current_stream,
                   visitLog, startScan, savedAtStart, endCause, summary, exitStatus,
                   savedLog>>
    /\ UnchangedElsewhere

\* lines 324-343: ENTER stops the stream, the queue holds no block
StopEmpty(s) ==
    /\ pc[s] = "recording"
    /\ IsEmptyCapture(DrainQueue(audio_queue[s]).recording_chunks)
    /\ current_stream' = [current_stream EXCEPT ![s] = FALSE]
    /\ audio_queue' = [audio_queue EXCEPT ![s] = DrainQueue(@).audio_queue]
    /\ visitLog' = [visitLog EXCEPT ![s] = SetLast(@, "no_audio")]
    /\ idx' = [idx EXCEPT ![s] = @ + 1]
    /\ nextBlock' = [nextBlock EXCEPT ![s] = 0]
    /\ pc' = [pc EXCEPT ![s] = "loop"]
    /\ UNCHANGED <<tree, sentences, sentence_ids, already_recorded_accent_ids,
                   session_recorded_count, session_skipped_count,
                   startScan, savedAtStart, endCause, summary, exitStatus, savedLog>>
    /\ UnchangedElsewhere

\* lines 324-360: ENTER stops the stream, the queue is drained and saved
StopAndSave(s) ==
    /\ pc[s] = "recording"
    /\ ~IsEmptyCapture(DrainQueue(audio_queue[s]).recording_chunks)
    /\ current_stream' = [current_stream EXCEPT ![s] = FALSE]
    /\ audio_queue' = [audio_queue EXCEPT ![s] = DrainQueue(@).audio_queue]
    /\ tree' = write_file(tree, s, output_filename(s, CurrentId(s)),
                          [by |-> s, id |-> CurrentId(s),
                           audio |-> DrainQueue(audio_queue[s]).recording_chunks])
    /\ session_recorded_count' = [session_recorded_count EXCEPT ![s] = @ + 1]
    /\ already_recorded_accent_ids' = [already_recorded_accent_ids EXCEPT ![s] =
            @ \cup {CurrentId(s)}]
    /\ savedLog' = savedLog \cup { <<s, CurrentId(s)>> }
    /\ visitLog' = [visitLog EXCEPT ![s] = SetLast(@, "saved")]
    /\ idx' = [idx EXCEPT ![s] = @ + 1]
    /\ nextBlock' = [nextBlock EXCEPT ![s] = 0]
    /\ pc' = [pc EXCEPT ![s] = "loop"]
    /\ UNCHANGED <<sentences, sentence_ids, session_skipped_count, startScan,
                   savedAtStart, endCause, summary, exitStatus>>
    /\ UNCHANGED <<csv, tree0, runs, loadVars, sortVars, scanVars>>

\* lines 324-352 and 362-366: sf.write raises, the loop is left by break
StopAndSaveFails(s) ==
    /\ pc[s] = "recording"
    /\ ~IsEmptyCapture(DrainQueue(audio_queue[s]).recording_chunks)
    /\ current_stream' = [current_stream EXCEPT ![s] = FALSE]
    /\ audio_queue' = [audio_queue EXCEPT ![s] = DrainQueue(@).audio_queue]
    /\ visitLog' = [visitLog EXCEPT ![s] = SetLast(@, "save_error")]
    /\ endCause' = [endCause EXCEPT ![s] = "save_error"]
    /\ nextBlock' = [nextBlock EXCEPT ![s] = 0]
    /\ pc' = [pc EXCEPT ![s] = SaveErrorNext]
    /\ UNCHANGED <<tree, sentences, sentence_ids, idx, already_recorded_accent_ids,
                   session_recorded_count, session_skipped_count, startScan,
                   savedAtStart, summary, exitStatus, savedLog>>
    /\ UnchangedElsewhere

\* lines 378-383: Ctrl+C at either input(); the handler closes the stream
KeyboardInterrupt(s) ==
    /\ pc[s] \in {"prompt", "recording"}
    /\ current_stream' = [current_stream EXCEPT ![s] = FALSE]
    /\ visitLog' = [visitLog EXCEPT ![s] = SetLast(@, "interrupted")]
    /\ endCause' = [endCause EXCEPT ![s] = "interrupt"]
    /\ nextBlock' = [nextBlock EXCEPT ![s] = 0]
    /\ pc' = [pc EXCEPT ![s] = "finally"]
    /\ UNCHANGED <<tree, sentences, sentence_ids, idx, already_recorded_accent_ids,
                   session_recorded_count, session_skipped_count, audio_queue,
                   startScan, savedAtStart, summary, exitStatus, savedLog>>
    /\ UnchangedElsewhere

\* lines 384-389: any other exception in the loop (input() at end of file)
UnexpectedError(s) ==
    /\ pc[s] \in {"prompt", "recording"}
    /\ current_stream' = [current_stream EXCEPT ![s] = FALSE]
    /\ visitLog' = [visitLog EXCEPT ![s] = SetLast(@, "exception")]
    /\ endCause' = [endCause EXCEPT ![s] = "exception"]
    /\ nextBlock' = [nextBlock EXCEPT ![s] = 0]
    /\ pc' = [pc EXCEPT ![s] = "finally"]
    /\ UNCHANGED <<tree, sentences, sentence_ids, idx, already_recorded_accent_ids,
                   session_recorded_count, session_skipped_count, audio_queue,
                   startScan, savedAtStart, summary, exitStatus, savedLog>>
    /\ UnchangedElsewhere

\* lines 391-406: the finally block prints the summary from a fresh scan;
\* the process then ends (its queue with it), with status 1 after an
\* audio device error
Summary(s) ==
    /\ pc[s] = "finally"
    /\ LET total == Len(sentence_ids[s])
           final == FinalIds(s)
       IN  summary' = [summary EXCEPT ![s] = Append(@,
              [total |-> total,
               recorded |-> session_recorded_count[s],
               skipped |-> session_skipped_count[s],
               final_recorded_ids |-> final,
               cumulative |-> Cardinality(final),
               remaining |-> Remaining(total, final)])]
    /\ exitStatus' = [exitStatus EXCEPT ![s] =
            IF endCause[s] = "audio_error" THEN 1 ELSE 0]
    /\ audio_queue' = [audio_queue EXCEPT ![s] = <<>>]
    /\ pc' = [pc EXCEPT ![s] = "done"]
    /\ UNCHANGED <<tree, sentences, sentence_ids, idx, already_recorded_accent_ids,
                   session_recorded_count, session_skipped_count,
                   current_stream, visitLog, startScan, savedAtStart, endCause,
                   savedLog, nextBlock>>
    /\ UnchangedElsewhere

SessInit(c, t) ==
    /\ csv = c
    /\ tree = t
    /\ tree0 = t
    /\ pc = [s \in Speakers |-> "idle"]
    /\ sentences = [s \in Speakers |-> <<>>]
    /\ sentence_ids = [s \in Speakers |-> <<>>]
    /\ idx = [s \in Speakers |-> 0]
    /\ already_recorded_accent_ids = [s \in Speakers |-> {}]
    /\ session_recorded_count = [s \in Speakers |-> 0]
    /\ session_skipped_count = [s \in Speakers |-> 0]
    /\ audio_queue = [s \in Speakers |-> <<>>]
    /\ current_stream = [s \in Speakers |-> FALSE]
    /\ visitLog = [s \in Speakers |-> <<>>]
    /\ startScan = [s \in Speakers |-> {}]
    /\ savedAtStart = [s \in Speakers |-> {}]
    /\ endCause = [s \in Speakers |-> "none"]
    /\ summary = [s \in Speakers |-> <<>>]
    /\ exitStatus = [s \in Speakers |-> "running"]
    /\ runs = 0
    /\ savedLog = {}
    /\ nextBlock = [s \in Speakers |-> 0]

LoadIdle ==
    /\ rows = <<>> /\ rowIdx = 0 /\ loaded = <<>> /\ warnings = <<>>
    /\ loadStatus = "reading"
SortIdle == keysIn = <<>> /\ sortOut = [state |-> "pending", value |-> <<>>]
ScanIdle == scanTree = NoTree /\ scanResult = [done |-> FALSE, ids |-> {}]

Init ==
    /\ \E st \in StartPool : SessInit(st[1], st[2])
    /\ LoadIdle /\ SortIdle /\ ScanIdle

Next ==
    \E s \in Speakers :
        \/ StartSession(s)
        \/ ScanAtStart(s)
        \/ LoopEnd(s)
        \/ SkipSentence(s)
        \/ PromptSentence(s)
        \/ OperatorQuit(s)
        \/ OperatorStart(s)
        \/ StreamError(s)
        \/ audio_callback(s)
        \/ StopEmpty(s)
        \/ StopAndSave(s)
        \/ StopAndSaveFails(s)
        \/ KeyboardInterrupt(s)
        \/ UnexpectedError(s)
        \/ Summary(s)

Spec == Init /\ [][Next]_vars

\* the finally block always runs once the try statement is left, and the
\* loop's own steps (skip, end of worklist) need no operator
FairSpec ==
    /\ Spec
    /\ \A s \in Speakers : WF_vars(Summary(s))

(***************************************************************************)
(* The loader on its own: any file of at most MaxRows rows.                *)
(***************************************************************************)
SeqsUpTo(S, n) == UNION { [1..k -> S] : k \in 0..n }

RowPool ==
    { Row(<<"1">>, <<"a">>), Row(<<" ", "1">>, <<"b">>), Row(<<"1">>, <<>>),
      Row(<<"2">>, <<"a">>), Row(<<"2", " ">>, <<" ", "b", " ">>),
      Row(<<>>, <<"a">>), Row(<<>>, <<" ">>), Row(<<" ">>, <<>>),
      Row(<<"2">>, None), Row(<<"1">>, <<"b">>) }

LoadState == [sentences |-> loaded, warnings |-> warnings, status |-> loadStatus]

\* one iteration of the loop of line 91
ReadRow ==
    /\ loadStatus = "reading"
    /\ rowIdx < Len(rows)
    /\ LET st == LoadRow(LoadState, rows[rowIdx + 1], rowIdx)
       IN  /\ loaded' = st.sentences
           /\ warnings' = st.warnings
           /\ loadStatus' = st.status
    /\ rowIdx' = rowIdx + 1
    /\ UNCHANGED <<rows, sessVars, sortVars, scanVars>>

\* lines 119-125: the loop is over
FinishLoad ==
    /\ loadStatus = "reading"
    /\ rowIdx = Len(rows)
    /\ loadStatus' = LoadEnd(LoadState).status
    /\ UNCHANGED <<rows, rowIdx, loaded, warnings, sessVars, sortVars, scanVars>>

LoadInit ==
    /\ rows \in SeqsUpTo(RowPool, MaxRows)
    /\ rowIdx = 0 /\ loaded = <<>> /\ warnings = <<>> /\ loadStatus = "reading"
    /\ SessInit(<<>>, NoTree) /\ SortIdle /\ ScanIdle

LoadNext == ReadRow \/ FinishLoad

LoadSpec == LoadInit /\ [][LoadNext]_vars

(***************************************************************************)
(* The ordering on its own: any catalog of at most MaxKeys identifiers.    *)
(***************************************************************************)
IdPool ==
    { <<"1">>, <<"2">>, <<"1", "0">>, <<"0", "1">>, <<"a">>, <<"b">>, <<"a", "_", "2">> }

IsInjective(f) == \A i, j \in DOMAIN f : f[i] = f[j] => i = j

ApplySort ==
    /\ sortOut.state = "pending"
    /\ LET r == sorted_keys(keysIn)
       IN  sortOut' = [state |-> IF r.error THEN "TypeError" ELSE "ok", value |-> r.value]
    /\ UNCHANGED <<keysIn, sessVars, loadVars, scanVars>>

OrderInit ==
    /\ keysIn \in { k \in SeqsUpTo(IdPool, MaxKeys) : Len(k) >= 1 /\ IsInjective(k) }
    /\ sortOut = [state |-> "pending", value |-> <<>>]
    /\ SessInit(<<>>, NoTree) /\ LoadIdle /\ ScanIdle

OrderNext == ApplySort

OrderSpec == OrderInit /\ [][OrderNext]_vars

(***************************************************************************)
(* The scan on its own: any directory of at most MaxFiles entries.         *)
(***************************************************************************)
ScanDirs == { <<"A">>, <<"B">> }
InAccentDir == <<>>     \* the place of an entry that lies in the accent directory itself

NamePool ==
    { <<"A", "_", "5", ".", "w", "a", "v">>,
      <<"B", "_", "7", ".", "w", "a", "v">>,
      <<"S", "P", "K", "1", "_", "a", "b", "c", ".", "w", "a", "v">>,
      <<"A", "_", "5", ".", "W", "A", "V">>,
      <<"A", "5", ".", "w", "a", "v">>,
      <<"A", "_", "1", "_", "1", "2", ".", "w", "a", "v">>,
      <<"A", "_", "5", ".", "t", "x", "t">> }

TreeOf(entries, unreadable) ==
    [exists |-> TRUE,
     dirs |-> { e[1] : e \in { x \in entries : x[1] # InAccentDir } },
     loose |-> { e[2] : e \in { x \in entries : x[1] = InAccentDir } },
     unreadable |-> unreadable,
     files |-> [p \in { x \in entries : x[1] # InAccentDir } |-> PriorFile]]

ScanTrees ==
    {NoTree} \cup
    { TreeOf(es, u) :
        es \in { x \in SUBSET ((ScanDirs \cup {InAccentDir}) \X NamePool) :
                    Cardinality(x) <= MaxFiles },
        u \in SUBSET ScanDirs }

ScanStep ==
    /\ ~scanResult.done
    /\ scanResult' = [done |-> TRUE, ids |-> get_recorded_sentence_ids_for_accent(scanTree)]
    /\ UNCHANGED <<scanTree, sessVars, loadVars, sortVars>>

ScanInit ==
    /\ scanTree \in { t \in ScanTrees : t.unreadable \subseteq t.dirs }
    /\ scanResult = [done |-> FALSE, ids |-> {}]
    /\ SessInit(<<>>, NoTree) /\ LoadIdle /\ SortIdle

ScanNext == ScanStep

ScanSpec == ScanInit /\ [][ScanNext]_vars

(***************************************************************************)
(* Properties.                                                             *)
(***************************************************************************)

\* ---- helpers of the properties --------------------------------------------

\* the longest run of digits a string ends with
RECURSIVE TrailingDigits(_)
TrailingDigits(str) ==
    IF str = <<>> \/ str[Len(str)] \notin Digits THEN <<>>
    ELSE TrailingDigits(SubSeq(str, 1, Len(str) - 1)) \o <<str[Len(str)]>>

Stem(name) == SubSeq(name, 1, Len(name) - 4)
Extension(name) == SubSeq(name, Len(name) - 3, Len(name))

\* name ends with underscore + one or more digits + the extension ext
EndsWithIdAnd(name, ext) ==
    /\ Len(name) > 4
    /\ ext = DotWav
    /\ LET run == TrailingDigits(Stem(name))
       IN  /\ run # <<>>
           /\ Len(Stem(name)) > Len(run)
           /\ Stem(name)[Len(Stem(name)) - Len(run)] = "_"

\* the union, over the directories ds of t, of the trailing digit runs of
\* the names that end with underscore + digits + ".wav"; anyCase tells
\* whether the extension is compared ignoring letter case
TrailingIdUnion(t, ds, anyCase) ==
    { TrailingDigits(Stem(p[2])) :
        p \in { q \in DOMAIN t.files :
                  /\ q[1] \in ds
                  /\ EndsWithIdAnd(q[2], IF anyCase THEN lower(Extension(q[2]))
                                                  ELSE Extension(q[2])) } }

ValidRow(r) ==
    /\ r.sentence_id # None /\ r.transcription # None
    /\ strip(r.sentence_id) # <<>> /\ strip(r.transcription) # <<>>

\* the rows read so far that carry identifier k and a transcription
ValidRowsOf(k) ==
    { j \in 1..rowIdx : ValidRow(rows[j]) /\ strip(rows[j].sentence_id) = k }

FirstValidRowOf(k) == CHOOSE j \in ValidRowsOf(k) : \A i \in ValidRowsOf(k) : j <= i

\* the rows read so far that come after the first valid row of their
\* identifier and carry the same (trimmed) identifier
LaterRowsWithStoredId ==
    { j \in 1..rowIdx :
        /\ rows[j].sentence_id # None
        /\ ValidRowsOf(strip(rows[j].sentence_id)) # {}
        /\ FirstValidRowOf(strip(rows[j].sentence_id)) < j }

DuplicateWarnedRows ==
    { warnings[i][2] - 1 : i \in { n \in 1..Len(warnings) : warnings[n][1] = "duplicate" } }

\* the catalog holds, for every identifier, the text of its first valid row,
\* and nothing else
CatalogIsFirstValidRows ==
    /\ IsInjective(DictKeys(loaded))
    /\ \A j \in 1..rowIdx : ValidRow(rows[j]) => strip(rows[j].sentence_id) \in DictKeySet(loaded)
    /\ \A k \in DictKeySet(loaded) :
          /\ ValidRowsOf(k) # {}
          /\ DictGet(loaded, k) = strip(rows[FirstValidRowOf(k)].transcription)

\* ---- C9 -------------------------------------------------------------------

C10_UnionOverEverySubdirectory ==
    scanResult.done => scanResult.ids = TrailingIdUnion(scanTree, scanTree.dirs, FALSE)

\* C10, amended: the same union, with the extension ".wav" compared
\* ignoring letter case, and over the subdirectories that can be listed.
C10_ScanResult ==
    scanResult.done =>
        scanResult.ids =
            TrailingIdUnion(scanTree, scanTree.dirs \ scanTree.unreadable, TRUE)

\* speaker A recorded 5, speaker B recorded 7, SPK1_abc.wav lies beside them
C10_Witness ==
    /\ scanResult.done
    /\ scanResult.ids = { <<"5">>, <<"7">> }
    /\ scanTree.unreadable = {}
    /\ DOMAIN scanTree.files =
          { << <<"A">>, <<"A", "_", "5", ".", "w", "a", "v">> >>,
            << <<"B">>, <<"B", "_", "7", ".", "w", "a", "v">> >>,
            << <<"B">>, <<"S", "P", "K", "1", "_", "a", "b", "c", ".", "w", "a", "v">> >> }

\* ---- C5 -------------------------------------------------------------------

\* C5: for any catalog, digit and non-digit identifiers mixed or not, the
\* ordering succeeds and yields all the identifiers of the catalog.
C5_OrderingSucceeds ==
    sortOut.state # "pending" =>
        /\ sortOut.state = "ok"
        /\ Len(sortOut.value) = Len(keysIn)
        /\ { sortOut.value[i] : i \in 1..Len(sortOut.value) }
              = { keysIn[i] : i \in 1..Len(keysIn) }

\* ---- helpers of the session properties -------------------------------------

Started(s) == pc[s] \in {"loop", "prompt", "recording", "finally", "done"}

VisitedIds(s) == [i \in 1..Len(visitLog[s]) |-> visitLog[s][i][1]]

Outcomes(s, o) == { i \in 1..Len(visitLog[s]) : visitLog[s][i][2] = o }

CatalogIds(s) == DictKeySet(sentences[s])

\* the sentence is skipped exactly when the scan of the session's start
\* holds its identifier; a skipped sentence is counted, and neither
\* prompted nor saved by this session
SkipIffInStartScan(s) ==
    /\ \A i \in 1..Len(visitLog[s]) :
          /\ (visitLog[s][i][2] = "skipped") <=> (visitLog[s][i][1] \in startScan[s])
          /\ visitLog[s][i][2] = "skipped" =>
                <<s, visitLog[s][i][1]>> \notin (savedLog \ savedAtStart[s])
    /\ session_skipped_count[s] = Cardinality(Outcomes(s, "skipped"))

\* ---- C1 -------------------------------------------------------------------

\* C1, as stated: a sentence the loop reaches is skipped iff its identifier
\* is in the set scanned at session start, and a sentence another speaker
\* had recorded when the session started is never offered.
C1_NeverOfferedAfterAnotherSpeaker ==
    \A s \in Speakers :
        /\ SkipIffInStartScan(s)
        /\ \A i \in 1..Len(visitLog[s]) :
              (\E b \in Speakers \ {s} : <<b, visitLog[s][i][1]>> \in savedAtStart[s])
                 => visitLog[s][i][2] = "skipped"

\* C1, amended: skipped iff in the set scanned at session start; a
\* sentence with an all-digit identifier that another speaker had recorded
\* when the session started is never offered.
C1_SkipPolicy ==
    \A s \in Speakers :
        /\ SkipIffInStartScan(s)
        /\ \A i \in 1..Len(visitLog[s]) :
              (/\ isdigit(visitLog[s][i][1])
               /\ \E b \in Speakers \ {s} : <<b, visitLog[s][i][1]>> \in savedAtStart[s])
                 => visitLog[s][i][2] = "skipped"

\* a session skipped a sentence another speaker had saved, and offered another one
C1_Witness ==
    \E s \in Speakers :
        /\ \E i \in Outcomes(s, "skipped") :
              /\ \E b \in Speakers \ {s} : <<b, visitLog[s][i][1]>> \in savedAtStart[s]
              /\ <<s, visitLog[s][i][1]>> \notin savedLog
        /\ Outcomes(s, "saved") # {}

\* ---- C2 -------------------------------------------------------------------

\* C2: the summary's remaining is the catalog size minus the number of
\* catalog identifiers found by the final scan, and is never negative.
C2_RemainingAgainstCatalog ==
    \A s \in Speakers :
        \A n \in 1..Len(summary[s]) :
            /\ summary[s][n].remaining =
                  summary[s][n].total
                    - Cardinality(summary[s][n].final_recorded_ids \cap CatalogIds(s))
            /\ summary[s][n].remaining >= 0

\* ---- C3 -------------------------------------------------------------------

\* the files of t are those of readable speaker directories in the sessions'
\* behaviours, so the scan's result is the union of trailing identifiers
ScanOfTree(t) == TrailingIdUnion(t, t.dirs, TRUE)

\* C3: every way the loop ends is followed by exactly one summary, whose
\* cumulative count comes from a scan of the directory made at that moment.
C3_SummaryAlwaysFollows ==
    /\ \A s \in Speakers : (pc[s] = "finally") ~> (pc[s] = "done" /\ Len(summary[s]) = 1)
    /\ [](\A s \in Speakers :
            /\ Len(summary[s]) <= 1
            /\ (endCause[s] # "none") <=> (pc[s] \in {"finally", "done"})
            /\ pc[s] = "done" => Len(summary[s]) = 1)
    /\ [][\A s \in Speakers :
            summary'[s] # summary[s] /\ summary'[s] # <<>> =>
                /\ summary'[s][Len(summary'[s])].final_recorded_ids = ScanOfTree(tree)
                /\ summary'[s][Len(summary'[s])].cumulative = Cardinality(ScanOfTree(tree))]_vars

\* a session interrupted by Ctrl+C whose summary counts a file that its
\* in-memory set does not hold
C3_Witness ==
    \E s \in Speakers :
        /\ pc[s] = "done"
        /\ endCause[s] = "interrupt"
        /\ Len(summary[s]) = 1
        /\ summary[s][1].cumulative > Cardinality(already_recorded_accent_ids[s])
        /\ summary[s][1].cumulative # session_recorded_count[s]

\* ---- C4 -------------------------------------------------------------------

\* C4, as stated: a fresh scan holds the identifier of every sentence that
\* was saved, whatever the identifier.
C4_ScanHoldsEverySave ==
    \A p \in savedLog : p[2] \in get_recorded_sentence_ids_for_accent(tree)

\* C4, amended: a fresh scan holds the identifier of every saved sentence
\* whose identifier is all digits; it holds a catalog identifier only if a
\* file for it was saved (or lay there before); a run started later does not
\* prompt for such a sentence, and its file is never written again.
C4_ScanReflectsSaves ==
    /\ [](LET fresh == get_recorded_sentence_ids_for_accent(tree)
              before == get_recorded_sentence_ids_for_accent(tree0)
          IN  /\ \A p \in savedLog : isdigit(p[2]) => p[2] \in fresh
              /\ \A s \in Speakers :
                   \A k \in fresh \cap CatalogIds(s) :
                       \/ \E b \in Speakers : <<b, k>> \in savedLog
                       \/ k \in before
              /\ \A s \in Speakers :
                   \A i \in 1..Len(visitLog[s]) :
                       (/\ isdigit(visitLog[s][i][1])
                        /\ \E b \in Speakers : <<b, visitLog[s][i][1]>> \in savedAtStart[s])
                          => visitLog[s][i][2] = "skipped")
    /\ [][\A p \in DOMAIN tree.files :
            isdigit(tree.files[p].id) =>
                p \in DOMAIN tree'.files /\ tree'.files[p] = tree.files[p]]_vars

\* a speaker's second run skipped the sentence the first run had saved
C4_Witness ==
    \E s \in Speakers :
        \E i \in Outcomes(s, "skipped") :
            /\ isdigit(visitLog[s][i][1])
            /\ <<s, visitLog[s][i][1]>> \in savedAtStart[s]
            /\ << s, output_filename(s, visitLog[s][i][1]) >> \in DOMAIN tree.files

\* ---- C6 -------------------------------------------------------------------

\* C6: with an all-digit catalog the sentences are visited in ascending
\* order of integer value, whatever the row order of the file, the speaker
\* and the directory's contents.
C6_NumericVisitOrder ==
    \A s \in Speakers :
        (Started(s) /\ \A k \in CatalogIds(s) : isdigit(k)) =>
            /\ Len(sentence_ids[s]) = Len(sentences[s])
            /\ { sentence_ids[s][i] : i \in 1..Len(sentence_ids[s]) } = CatalogIds(s)
            /\ VisitedIds(s) = SubSeq(sentence_ids[s], 1, Len(visitLog[s]))
            /\ \A i, j \in 1..Len(visitLog[s]) :
                  i < j => int(visitLog[s][i][1]) <= int(visitLog[s][j][1])
            /\ \A t \in Speakers : Started(t) => sentence_ids[t] = sentence_ids[s]

\* the file lists 10 before 2; both were visited, 2 first, one of them skipped
C6_Witness ==
    \E s \in Speakers :
        /\ DictKeys(sentences[s]) = << <<"1", "0">>, <<"2">> >>
        /\ VisitedIds(s) = << <<"2">>, <<"1", "0">> >>
        /\ Outcomes(s, "skipped") # {}
        /\ tree0 = StrayTree

\* ---- C7 -------------------------------------------------------------------

\* the operator stops a capture that put no block in the queue
StopsEmptyCapture(s) ==
    /\ pc[s] = "recording"
    /\ audio_queue[s] = <<>>
    /\ pc'[s] # "recording"
    /\ endCause'[s] = "none"

\* C7: an empty capture creates no file, leaves the completed set and the
\* recorded count alone, and the session goes on to the next sentence; no
\* sentence is reached twice in a session.
C7_EmptyCapture ==
    /\ [][\A s \in Speakers :
            StopsEmptyCapture(s) =>
                /\ tree' = tree
                /\ savedLog' = savedLog
                /\ already_recorded_accent_ids'[s] = already_recorded_accent_ids[s]
                /\ session_recorded_count'[s] = session_recorded_count[s]
                /\ idx'[s] = idx[s] + 1
                /\ pc'[s] = "loop"]_vars
    /\ [](\A s \in Speakers : IsInjective(VisitedIds(s)))

\* after an empty capture of the first sentence the second one was reached
C7_Witness ==
    \E s \in Speakers :
        /\ Len(visitLog[s]) = 2
        /\ visitLog[s][1][2] = "no_audio"
        /\ visitLog[s][1][1] \notin already_recorded_accent_ids[s]
        /\ << s, output_filename(s, visitLog[s][1][1]) >> \notin DOMAIN tree.files
        /\ visitLog[s][2][2] = "prompted"

\* ---- C8 -------------------------------------------------------------------

\* C8: when the write fails, the session prompts for nothing more, the
\* failed sentence is neither counted nor added to the completed set, and
\* the summary is still printed, from a fresh scan.
C8_FailFastOnSaveError ==
    /\ [][\A s \in Speakers :
            endCause'[s] = "save_error" =>
                /\ session_recorded_count'[s] = session_recorded_count[s]
                /\ already_recorded_accent_ids'[s] = already_recorded_accent_ids[s]
                /\ endCause[s] = "save_error" => visitLog'[s] = visitLog[s]
                /\ pc'[s] \in {"finally", "done"}]_vars
    /\ [](\A s \in Speakers :
            endCause[s] = "save_error" =>
                /\ visitLog[s][Len(visitLog[s])][2] = "save_error"
                /\ visitLog[s][Len(visitLog[s])][1] \notin already_recorded_accent_ids[s]
                /\ session_recorded_count[s] = Cardinality(Outcomes(s, "saved"))
                /\ pc[s] = "finally" => ENABLED Summary(s)
                /\ pc[s] = "done" =>
                      /\ Len(summary[s]) = 1
                      /\ summary[s][1].recorded = Cardinality(Outcomes(s, "saved"))
                      /\ summary[s][1].cumulative
                            = Cardinality(summary[s][1].final_recorded_ids))

\* the write of the first sentence failed, the second was never reached,
\* and the summary was printed
C8_Witness ==
    \E s \in Speakers :
        /\ endCause[s] = "save_error"
        /\ pc[s] = "done"
        /\ Len(visitLog[s]) = 1
        /\ Len(sentence_ids[s]) = 2
        /\ Len(summary[s]) = 1

\* ---- C11 ------------------------------------------------------------------

\* the identifiers this session saved at the visits before visit i
SavedBefore(s, i) ==
    { visitLog[s][j][1] : j \in { k \in 1..(i - 1) : visitLog[s][k][2] = "saved" } }

\* the other speakers that saved sentence_id after this session's start scan
SavedSinceScanBy(s, sentence_id) ==
    { b \in Speakers \ {s} : <<b, sentence_id>> \in savedLog \ savedAtStart[s] }

\* C11: a session decides its skips from its own start scan and its own
\* saves only: the in-memory set is the start scan plus the identifiers the
\* session saved; a sentence is skipped exactly when that set held it at the
\* visit; a sentence another speaker saved after the start scan, with no
\* file for it at the scan, is still offered; and a skipped sentence had a
\* file at the session's start scan, written by a run before it or there
\* from the beginning.
C11_NoLiveRescan ==
    \A s \in Speakers :
        /\ Started(s) =>
              already_recorded_accent_ids[s]
                  = startScan[s] \cup SavedBefore(s, Len(visitLog[s]) + 1)
        /\ \A i \in 1..Len(visitLog[s]) :
              LET sentence_id == visitLog[s][i][1]
                  outcome == visitLog[s][i][2]
              IN  /\ (outcome = "skipped")
                        <=> (sentence_id \in startScan[s] \cup SavedBefore(s, i))
                  /\ (SavedSinceScanBy(s, sentence_id) # {} /\ sentence_id \notin startScan[s])
                        => outcome # "skipped"
                  /\ outcome = "skipped" =>
                        \/ \E b \in Speakers : <<b, sentence_id>> \in savedAtStart[s]
                        \/ sentence_id \in get_recorded_sentence_ids_for_accent(tree0)

\* two sessions ran at the same time: one saved a sentence after the other's
\* start scan, the other was offered the sentence all the same and saved it
\* too, and the directory holds both speakers' files for it
C11_Witness ==
    \E s \in Speakers : \E i \in Outcomes(s, "saved") :
        LET sentence_id == visitLog[s][i][1]
        IN  /\ isdigit(sentence_id)
            /\ SavedSinceScanBy(s, sentence_id) # {}
            /\ \A b \in Speakers :
                  /\ << b, output_filename(b, sentence_id) >> \in DOMAIN tree.files
                  /\ tree.files[<< b, output_filename(b, sentence_id) >>].by = b
            /\ sentence_id \in get_recorded_sentence_ids_for_accent(tree)

\* ---- C12 ------------------------------------------------------------------

\* the blocks the callback delivered for sentence_id since the stream's
\* start, in the order of their delivery
BlocksOfCapture(sentence_id, n) == [k \in 1..n |-> <<sentence_id, k>>]

====
